---- MODULE Spec2Model ----
(***************************************************************************)
(* supermemory-selfhosted: the document store behind /v3/documents and    *)
(* /v4/memories (routes/documents.ts, routes/memories.ts, embeddings.ts),  *)
(* the search routes (routes/search.ts), the settings routes               *)
(* (routes/settings.ts), the auth middleware (index.ts) and migrate.ts.    *)
(* Requests run concurrently; a handler is suspended only at its awaits   *)
(* of the embedding endpoint and of a storage statement, so each action    *)
(* below is one such await together with the synchronous code after it.    *)
(* A storage statement is one step, except in PoolSpec, where query()      *)
(* (db.ts) is followed through its two awaits.                             *)
(***************************************************************************)
EXTENDS Integers, Sequences, FiniteSets, TLC

\* ---------------------------------------------------------------- bounds
MaxIds == 2        \* uuids the server generates in one run
MaxOps == 2        \* requests the server accepts in one run

\* ------------------------------------------------------ program constants
EMBEDDING_DIMENSIONS == 1536
SliceEnd == 8000

\* An optional JavaScript value: None is undefined/null, Some(x) is x.
None == <<>>
Some(x) == <<x>>

Slots == {"r1", "r2"}                  \* requests in flight at one time
EmptyMap == [k \in {} |-> "0"]
MissingId == "no-such-id"

\* Request bodies the clients send.
Body(content, metadata, containerTag) ==
    [content |-> content, metadata |-> metadata, containerTag |-> containerTag]
AddBodies == {Body(Some(""), None, None), Body(Some("a"), None, None),
              Body(Some("b"), Some([a |-> "0"]), Some("x"))}
PatchBodies == {Body(Some("a"), None, None), Body(Some("b"), Some([a |-> "1"]), None),
                Body(None, Some([b |-> "2"]), None)}

\* uuidv4(): the n-th identifier generated; never repeats.
Uuid(n) == "u" \o ToString(n)

\* JavaScript truthiness of an optional string or object: undefined, null
\* and "" are falsy; every object (the empty one too) is truthy.
TruthyText(o) == o # None /\ o[1] # ""
TruthyObject(o) == o # None

\* containerTag ?? "default"
TagOrDefault(o) == IF o = None THEN "default" ELSE o[1]

\* JSON.stringify(metadata ?? {}) read back by the jsonb column.
MetadataOrEmpty(o) == IF o = None THEN EmptyMap ELSE o[1]

\* ------------------------------------------------------------ embeddings
\* text.slice(0, 8000)
Slice(text) == IF Len(text) <= SliceEnd THEN text ELSE SubSeq(text, 1, SliceEnd)

\* The vector a well-behaved endpoint returns for an input text.
Vector(text) == [of |-> text, dims |-> EMBEDDING_DIMENSIONS]

\* What embeddings.create can do for the given inputs: reject, or resolve
\* with a data array that holds the vectors of a prefix of the inputs, or of
\* all of them but with the last entry lacking its embedding field.
EmbeddingResponses(inputs) ==
    {[ok |-> FALSE, data |-> <<>>]} \cup
    {[ok |-> TRUE, data |-> [i \in 1..n |-> Some(Vector(inputs[i]))]] : n \in 0..Len(inputs)} \cup
    {[ok |-> TRUE, data |-> [i \in 1..Len(inputs) |->
                               IF i = Len(inputs) THEN None ELSE Some(Vector(inputs[i]))]]}

\* generateEmbedding: response.data[0].embedding, or a throw.
generateEmbedding(text, response) ==
    IF ~response.ok \/ Len(response.data) = 0
    THEN [threw |-> TRUE, value |-> None]
    ELSE [threw |-> FALSE, value |-> response.data[1]]

\* generateEmbeddings: response.data.map(d => d.embedding), or a throw.
generateEmbeddings(texts, response) ==
    IF ~response.ok
    THEN [threw |-> TRUE, value |-> <<>>]
    ELSE [threw |-> FALSE, value |-> response.data]

\* embeddings[i] of a JavaScript array: undefined past its end.
At(arr, i) == IF i \in 1..Len(arr) THEN arr[i] ELSE None

\* ---------------------------------------------------------------- router
\* A pattern segment is a parameter (":id") or a literal.
Param(name) == [param |-> TRUE, text |-> name]
Lit(text) == [param |-> FALSE, text |-> text]

\* routes/documents.ts, in registration order.
DocumentRoutes == <<
    [method |-> "POST",   pattern |-> <<>>,                  handler |-> "add"],
    [method |-> "POST",   pattern |-> <<Lit("batch")>>,      handler |-> "batch"],
    [method |-> "POST",   pattern |-> <<Lit("list")>>,       handler |-> "list"],
    [method |-> "GET",    pattern |-> <<Lit("processing")>>, handler |-> "processing"],
    [method |-> "GET",    pattern |-> <<Param("id")>>,       handler |-> "get"],
    [method |-> "PATCH",  pattern |-> <<Param("id")>>,       handler |-> "patch"],
    [method |-> "DELETE", pattern |-> <<Param("id")>>,       handler |-> "delete"],
    [method |-> "DELETE", pattern |-> <<Lit("bulk")>>,       handler |-> "bulk"],
    [method |-> "POST",   pattern |-> <<Lit("file")>>,       handler |-> "file"] >>

Matches(route, method, path) ==
    /\ route.method = method
    /\ Len(route.pattern) = Len(path)
    /\ \A i \in 1..Len(path) : route.pattern[i].param \/ route.pattern[i].text = path[i]

\* Hono runs the matching handlers in registration order; each handler here
\* answers without calling next(), so the first match serves the request.
Dispatch(routes, method, path) ==
    LET hits == {i \in 1..Len(routes) : Matches(routes[i], method, path)}
    IN  IF hits = {} THEN "notFound"
        ELSE routes[CHOOSE i \in hits : \A j \in hits : i <= j].handler

\* ----------------------------------------------------------------- state
VARIABLES
    docs,       \* the documents table: id -> row
    nextUuid,   \* how many uuids have been generated
    ops,        \* how many requests have been accepted
    req,        \* per slot: the request being served
    pc,         \* per slot: where its handler is suspended ("idle": free)
    loc,        \* per slot: the handler's local variables
    out,        \* the response the latest step sent, with what it answers (none: NoAnswer)
    metaLog,    \* history: per stored id, its first metadata and then every metadata patch written to it
    posted,     \* history: ids returned by POST /v3/documents and not updated or deleted since, with the body sent
    deleted,    \* history: ids for which DELETE /v3/documents/:id answered "deleted"
    settings,   \* the settings table: whether it exists, and the data of its row 'default', if any
    API_KEY,    \* process.env.SUPERMEMORY_API_KEY
    authorization,  \* the Authorization header of the request received last
    borrowed    \* how many clients are checked out of the connection pool

vars == <<docs, nextUuid, ops, req, pc, loc, out, metaLog, posted, deleted,
          settings, API_KEY, authorization, borrowed>>

NoReq == [method |-> "", path |-> <<>>, content |-> None, metadata |-> None,
          containerTag |-> None, documents |-> None, file |-> None,
          id |-> None, ids |-> None, q |-> None, limit |-> None, threshold |-> None,
          offset |-> None, body |-> None]
NoLoc == [id |-> "", tag |-> "", embedding |-> None, embeddings |-> <<>>,
          i |-> 0, results |-> <<>>, thrown |-> "", rows |-> <<>>, seen |-> EmptyMap]
NoResp == [code |-> 0, error |-> "", id |-> "", status |-> "", doc |-> None,
           results |-> <<>>, deleted |-> {}, count |-> 0, memories |-> <<>>,
           documents |-> <<>>, total |-> 0, data |-> None]

\* c.json(fields, code)
Json(code, fields) == [k \in DOMAIN NoResp |-> IF k = "code" THEN code
                                               ELSE IF k \in DOMAIN fields THEN fields[k]
                                               ELSE NoResp[k]]

\* An exception that leaves a handler: Hono's default error handler.
InternalError == [NoResp EXCEPT !.code = 500, !.error = "Internal Server Error"]

\* What is kept of an answered request: its route, the id it named or
\* generated last, every uuid it generated, the error that ended it, the
\* table its first statement read (seen; kept by the list handler).
Answer(q, l, response) ==
    [method |-> q.method, path |-> q.path, ids |-> q.ids, id |-> l.id,
     containerTag |-> q.containerTag, q |-> q.q, limit |-> q.limit,
     threshold |-> q.threshold, offset |-> q.offset, body |-> q.body,
     made |-> {l.results[i].id : i \in 1..Len(l.results)} \cup
              (IF q.method = "POST" /\ l.id # "" THEN {l.id} ELSE {}),
     thrown |-> l.thrown, seen |-> l.seen, resp |-> response]

NoAnswer == Answer(NoReq, NoLoc, NoResp)

\* The settings table with its row, and the database that has none yet.
SettingsTable(row) == [exists |-> TRUE, row |-> row]
NoSettingsTable == [exists |-> FALSE, row |-> None]

\* The table as an earlier run of the server left it: empty, or holding one
\* document that POST /v3/documents stored.
SeedId == "u0"
SeedRow == [content |-> "a", metadata |-> [a |-> "0"], embedding |-> Some(Vector("a")),
            container_tag |-> "default", status |-> "processed", created_at |-> 0]
InitialTables == {EmptyMap, [k \in {SeedId} |-> SeedRow]}

Init ==
    /\ docs \in InitialTables
    /\ nextUuid = 0
    /\ ops = 0
    /\ req = [r \in Slots |-> NoReq]
    /\ pc = [r \in Slots |-> "idle"]
    /\ loc = [r \in Slots |-> NoLoc]
    /\ out = NoAnswer
    /\ metaLog = [k \in DOMAIN docs |-> <<docs[k].metadata>>]
    /\ posted = EmptyMap
    /\ deleted = {}
    /\ settings = SettingsTable(Some(EmptyMap))
    /\ API_KEY = None
    /\ authorization = None
    /\ borrowed = 0

\* ------------------------------------------------------------ middleware
\* String.prototype.replace with a string pattern: the first occurrence only.
Occurrences(s, pattern) ==
    {i \in 1..(Len(s) - Len(pattern) + 1) : SubSeq(s, i, i + Len(pattern) - 1) = pattern}
Replace(s, pattern, by) ==
    IF Occurrences(s, pattern) = {} THEN s
    ELSE LET i == CHOOSE j \in Occurrences(s, pattern) : \A k \in Occurrences(s, pattern) : j <= k
         IN  SubSeq(s, 1, i - 1) \o by \o SubSeq(s, i + Len(pattern), Len(s))

\* app.use("/v3/*") and app.use("/v4/*"): "next" lets the request through to
\* its handler, "401" answers it.
Middleware(key, header) ==
    IF TruthyText(key)
    THEN LET k == IF header = None THEN None ELSE Some(Replace(header[1], "Bearer ", ""))
         IN  IF k # key THEN "401" ELSE "next"
    ELSE "next"

\* Authorization headers the clients send; the header is read only when a
\* key is configured.
Headers(key) ==
    IF TruthyText(key)
    THEN {None, Some("Bearer " \o key[1]), Some(key[1]), Some("Bearer X")}
    ELSE {None}

\* ------------------------------------------------------- handler plumbing
\* A request to a /v3 or /v4 route passes the middleware and is accepted
\* into a free slot.
Accept(r) ==
    /\ pc[r] = "idle"
    /\ ops < MaxOps
    /\ ops' = ops + 1
    /\ \E header \in Headers(API_KEY) :
          /\ Middleware(API_KEY, header) = "next"
          /\ authorization' = header

\* The handler of request q is suspended at its next await, with locals l.
Await(r, label, q, l) ==
    /\ pc' = [pc EXCEPT ![r] = label]
    /\ req' = [req EXCEPT ![r] = q]
    /\ loc' = [loc EXCEPT ![r] = l]
    /\ out' = NoAnswer

\* return c.json(...), or an exception reaching the error handler: the
\* response is sent and the slot is free again.
Reply(r, q, l, response) ==
    /\ pc' = [pc EXCEPT ![r] = "idle"]
    /\ req' = [req EXCEPT ![r] = NoReq]
    /\ loc' = [loc EXCEPT ![r] = NoLoc]
    /\ out' = Answer(q, l, response)

Throw(r, q, l, what) == Reply(r, q, [l EXCEPT !.thrown = what], InternalError)

\* A statement sent through query() runs, or the storage layer rejects it.
StorageOutcomes == {"ok", "error"}

\* ------------------------------------------------------------ statements
Row(content, metadata, embedding, tag) ==
    [content |-> content, metadata |-> metadata, embedding |-> embedding,
     container_tag |-> tag, status |-> "processed"]

InsertRow(d, id, row) == [k \in DOMAIN d \cup {id} |-> IF k = id THEN row ELSE d[k]]

\* created_at TIMESTAMPTZ DEFAULT now(): later than that of every stored row.
Now(d) ==
    IF DOMAIN d = {} THEN 1
    ELSE 1 + (CHOOSE t \in {d[k].created_at : k \in DOMAIN d} :
                 \A k \in DOMAIN d : d[k].created_at <= t)

\* INSERT INTO documents (id, content, metadata, embedding, container_tag, status)
InsertDocument(d, id, row) == InsertRow(d, id, row @@ [created_at |-> Now(d)])

\* SELECT ... FROM documents WHERE id = $1
SelectById(d, id) == IF id \in DOMAIN d THEN <<d[id]>> ELSE <<>>

\* DELETE FROM documents WHERE id IN (...) RETURNING id
DeleteIds(d, ids) == [k \in DOMAIN d \ ids |-> d[k]]

\* The document object of GET /v3/documents/:id.
Projection(id, row) ==
    [id |-> id, content |-> row.content, metadata |-> row.metadata,
     containerTag |-> row.container_tag, status |-> row.status]

\* History bookkeeping of a step that leaves the table as d.
Forget(h, ids) == [k \in DOMAIN h \ ids |-> h[k]]

\* ------------------------------------------------- POST /v3/documents
\* AddBegin, had it stored the row as "processing" before embedding it.
AddBeginStoreFirst(r) ==
    \E body \in AddBodies :
        LET q == [NoReq EXCEPT !.method = "POST", !.content = body.content,
                               !.metadata = body.metadata, !.containerTag = body.containerTag]
            id == Uuid(nextUuid + 1)
        IN  /\ Accept(r)
            /\ IF ~TruthyText(body.content)
               THEN /\ Reply(r, q, NoLoc, Json(400, [error |-> "content is required"]))
                    /\ UNCHANGED <<nextUuid, docs, metaLog>>
               ELSE /\ nextUuid < MaxIds
                    /\ nextUuid' = nextUuid + 1
                    /\ docs' = InsertDocument(docs, id,
                                  [Row(body.content[1], MetadataOrEmpty(body.metadata), None,
                                       TagOrDefault(body.containerTag)) EXCEPT !.status = "processing"])
                    /\ metaLog' = InsertRow(metaLog, id, <<MetadataOrEmpty(body.metadata)>>)
                    /\ Await(r, "add_embed", q,
                             [NoLoc EXCEPT !.id = id, !.tag = TagOrDefault(body.containerTag)])
            /\ UNCHANGED <<posted, deleted, API_KEY, borrowed, settings>>

AddBegin(r) ==
    \E body \in AddBodies :
        LET q == [NoReq EXCEPT !.method = "POST", !.content = body.content,
                               !.metadata = body.metadata, !.containerTag = body.containerTag]
        IN  /\ Dispatch(DocumentRoutes, "POST", <<>>) = "add"
            /\ Accept(r)
            /\ IF ~TruthyText(body.content)
               THEN /\ Reply(r, q, NoLoc, Json(400, [error |-> "content is required"]))
                    /\ UNCHANGED nextUuid
               ELSE /\ nextUuid < MaxIds
                    /\ nextUuid' = nextUuid + 1
                    /\ Await(r, "add_embed", q,
                             [NoLoc EXCEPT !.id = Uuid(nextUuid + 1),
                                           !.tag = TagOrDefault(body.containerTag)])
            /\ UNCHANGED <<docs, metaLog, posted, deleted, API_KEY, borrowed, settings>>

AddEmbed(r) ==
    /\ pc[r] = "add_embed"
    /\ \E response \in EmbeddingResponses(<<Slice(req[r].content[1])>>) :
        LET e == generateEmbedding(req[r].content[1], response)
        IN  IF e.threw
            THEN Throw(r, req[r], loc[r], "embedding")
            ELSE Await(r, "add_insert", req[r], [loc[r] EXCEPT !.embedding = e.value])
    /\ UNCHANGED <<docs, nextUuid, ops, metaLog, posted, deleted, API_KEY, borrowed, authorization, settings>>

AddInsert(r) ==
    /\ pc[r] = "add_insert"
    /\ \E outcome \in StorageOutcomes :
        IF outcome = "error"
        THEN /\ Throw(r, req[r], loc[r], "storage")
             /\ UNCHANGED <<docs, metaLog, posted>>
        ELSE LET metadata == MetadataOrEmpty(req[r].metadata)
             IN  /\ docs' = InsertDocument(docs, loc[r].id,
                                      Row(req[r].content[1], metadata, loc[r].embedding, loc[r].tag))
                 /\ metaLog' = InsertRow(metaLog, loc[r].id, <<metadata>>)
                 /\ posted' = InsertRow(posted, loc[r].id,
                                        [content |-> req[r].content, containerTag |-> req[r].containerTag])
                 /\ Reply(r, req[r], loc[r], Json(200, [id |-> loc[r].id, status |-> "processed"]))
    /\ UNCHANGED <<nextUuid, ops, deleted, API_KEY, borrowed, authorization, settings>>

\* ------------------------------------------- POST /v3/documents/batch
BatchItem(content) == [content |-> content, metadata |-> None, containerTag |-> None]
BatchInputs ==
    {None, Some(<<>>), Some(<<BatchItem(Some("a"))>>), Some(<<BatchItem(Some(""))>>),
     Some(<<BatchItem(Some("a")), BatchItem(Some("b"))>>)}

BatchBegin(r) ==
    \E documents \in BatchInputs :
        LET q == [NoReq EXCEPT !.method = "POST", !.path = <<"batch">>, !.documents = documents]
        IN  /\ Dispatch(DocumentRoutes, "POST", <<"batch">>) = "batch"
            /\ Accept(r)
            /\ IF documents = None \/ Len(documents[1]) = 0
               THEN Reply(r, q, NoLoc, Json(400, [error |-> "documents array is required"]))
               ELSE /\ nextUuid + Len(documents[1]) <= MaxIds
                    /\ Await(r, "batch_embed", q, NoLoc)
            /\ UNCHANGED <<docs, nextUuid, metaLog, posted, deleted, API_KEY, borrowed, settings>>

BatchEmbed(r) ==
    /\ pc[r] = "batch_embed"
    /\ LET items == req[r].documents[1]
           contents == [i \in 1..Len(items) |-> items[i].content]
       IN  IF \E i \in 1..Len(contents) : contents[i] = None
           THEN \* t.slice on an undefined content: a TypeError before the call
                /\ Throw(r, req[r], loc[r], "type")
                /\ UNCHANGED nextUuid
           ELSE \E response \in EmbeddingResponses([i \in 1..Len(contents) |-> Slice(contents[i][1])]) :
                LET e == generateEmbeddings([i \in 1..Len(contents) |-> contents[i][1]], response)
                IN  IF e.threw
                    THEN /\ Throw(r, req[r], loc[r], "embedding")
                         /\ UNCHANGED nextUuid
                    ELSE /\ nextUuid < MaxIds
                         /\ nextUuid' = nextUuid + 1
                         /\ Await(r, "batch_insert", req[r],
                                  [loc[r] EXCEPT !.embeddings = e.value, !.i = 1,
                                                 !.id = Uuid(nextUuid + 1)])
    /\ UNCHANGED <<docs, ops, metaLog, posted, deleted, API_KEY, borrowed, authorization, settings>>

\* BatchInsert, had the handler embedded each item inside the loop: after the
\* INSERT of item i the embedding call for item i + 1 can fail.
BatchInsertEmbedEach(r) ==
    /\ pc[r] = "batch_insert"
    /\ LET items == req[r].documents[1]
           i == loc[r].i
           doc == items[i]
           metadata == MetadataOrEmpty(doc.metadata)
           results == Append(loc[r].results, [id |-> loc[r].id, status |-> "processed"])
       IN  /\ docs' = InsertDocument(docs, loc[r].id,
                                Row(doc.content[1], metadata, At(loc[r].embeddings, i),
                                    TagOrDefault(doc.containerTag)))
           /\ metaLog' = InsertRow(metaLog, loc[r].id, <<metadata>>)
           /\ IF i < Len(items)
              THEN \E response \in EmbeddingResponses(<<Slice(items[i + 1].content[1])>>) :
                     IF generateEmbedding(items[i + 1].content[1], response).threw
                     THEN /\ UNCHANGED nextUuid
                          /\ Throw(r, req[r], [loc[r] EXCEPT !.results = results], "embedding")
                     ELSE /\ nextUuid < MaxIds
                          /\ nextUuid' = nextUuid + 1
                          /\ Await(r, "batch_insert", req[r],
                                   [loc[r] EXCEPT !.i = i + 1, !.results = results,
                                                  !.id = Uuid(nextUuid + 1)])
              ELSE /\ UNCHANGED nextUuid
                   /\ Reply(r, req[r], [loc[r] EXCEPT !.results = results],
                            Json(200, [results |-> results]))
    /\ UNCHANGED <<ops, posted, deleted, API_KEY, borrowed, authorization, settings>>

\* BatchInsert, had the loop run in one transaction: a failed INSERT rolls
\* the earlier rows of the batch back.
BatchInsertAtomic(r) ==
    /\ pc[r] = "batch_insert"
    /\ LET items == req[r].documents[1]
           i == loc[r].i
           doc == items[i]
           metadata == MetadataOrEmpty(doc.metadata)
       IN  \E outcome \in StorageOutcomes :
            IF outcome = "error"
            THEN /\ Throw(r, req[r], loc[r], "storage")
                 /\ docs' = DeleteIds(docs, {loc[r].results[j].id : j \in 1..Len(loc[r].results)})
                 /\ metaLog' = Forget(metaLog, DOMAIN docs \ DOMAIN docs')
                 /\ UNCHANGED nextUuid
            ELSE /\ docs' = InsertDocument(docs, loc[r].id,
                                      Row(doc.content[1], metadata, At(loc[r].embeddings, i),
                                          TagOrDefault(doc.containerTag)))
                 /\ metaLog' = InsertRow(metaLog, loc[r].id, <<metadata>>)
                 /\ LET results == Append(loc[r].results, [id |-> loc[r].id, status |-> "processed"])
                    IN  IF i < Len(items)
                        THEN /\ nextUuid < MaxIds
                             /\ nextUuid' = nextUuid + 1
                             /\ Await(r, "batch_insert", req[r],
                                      [loc[r] EXCEPT !.i = i + 1, !.results = results,
                                                     !.id = Uuid(nextUuid + 1)])
                        ELSE /\ UNCHANGED nextUuid
                             /\ Reply(r, req[r], [loc[r] EXCEPT !.results = results],
                                      Json(200, [results |-> results]))
    /\ UNCHANGED <<ops, posted, deleted, API_KEY, borrowed, authorization, settings>>

\* One turn of the loop: the INSERT of item i, results.push, and the uuid of
\* the next item.
BatchInsert(r) ==
    /\ pc[r] = "batch_insert"
    /\ LET items == req[r].documents[1]
           i == loc[r].i
           doc == items[i]
           metadata == MetadataOrEmpty(doc.metadata)
       IN  \E outcome \in StorageOutcomes :
            IF outcome = "error"
            THEN /\ Throw(r, req[r], loc[r], "storage")
                 /\ UNCHANGED <<docs, metaLog, nextUuid>>
            ELSE /\ docs' = InsertDocument(docs, loc[r].id,
                                      Row(doc.content[1], metadata, At(loc[r].embeddings, i),
                                          TagOrDefault(doc.containerTag)))
                 /\ metaLog' = InsertRow(metaLog, loc[r].id, <<metadata>>)
                 /\ LET results == Append(loc[r].results, [id |-> loc[r].id, status |-> "processed"])
                    IN  IF i < Len(items)
                        THEN /\ nextUuid < MaxIds
                             /\ nextUuid' = nextUuid + 1
                             /\ Await(r, "batch_insert", req[r],
                                      [loc[r] EXCEPT !.i = i + 1, !.results = results,
                                                     !.id = Uuid(nextUuid + 1)])
                        ELSE /\ UNCHANGED nextUuid
                             /\ Reply(r, req[r], [loc[r] EXCEPT !.results = results],
                                      Json(200, [results |-> results]))
    /\ UNCHANGED <<ops, posted, deleted, API_KEY, borrowed, authorization, settings>>

\* -------------------------------------------- POST /v3/documents/file
FileInputs == {None} \cup {Some([name |-> "f.txt", text |-> t]) : t \in {"", "a"}}

\* { filename: file.name, size: file.size, type: file.type }
FileMetadata(file) ==
    [filename |-> file.name, size |-> ToString(Len(file.text)), type |-> "text/plain"]

FileBegin(r) ==
    \E file \in FileInputs :
        LET q == [NoReq EXCEPT !.method = "POST", !.path = <<"file">>, !.file = file]
        IN  /\ Dispatch(DocumentRoutes, "POST", <<"file">>) = "file"
            /\ Accept(r)
            /\ IF file = None
               THEN /\ Reply(r, q, NoLoc, Json(400, [error |-> "file is required"]))
                    /\ UNCHANGED nextUuid
               ELSE /\ nextUuid < MaxIds
                    /\ nextUuid' = nextUuid + 1
                    /\ Await(r, "file_embed", q, [NoLoc EXCEPT !.id = Uuid(nextUuid + 1)])
            /\ UNCHANGED <<docs, metaLog, posted, deleted, API_KEY, borrowed, settings>>

FileEmbed(r) ==
    /\ pc[r] = "file_embed"
    /\ \E response \in EmbeddingResponses(<<Slice(req[r].file[1].text)>>) :
        LET e == generateEmbedding(req[r].file[1].text, response)
        IN  IF e.threw
            THEN Throw(r, req[r], loc[r], "embedding")
            ELSE Await(r, "file_insert", req[r], [loc[r] EXCEPT !.embedding = e.value])
    /\ UNCHANGED <<docs, nextUuid, ops, metaLog, posted, deleted, API_KEY, borrowed, authorization, settings>>

FileInsert(r) ==
    /\ pc[r] = "file_insert"
    /\ \E outcome \in StorageOutcomes :
        IF outcome = "error"
        THEN /\ Throw(r, req[r], loc[r], "storage")
             /\ UNCHANGED <<docs, metaLog>>
        ELSE LET metadata == FileMetadata(req[r].file[1])
             IN  /\ docs' = InsertDocument(docs, loc[r].id,
                                      Row(req[r].file[1].text, metadata, loc[r].embedding, "default"))
                 /\ metaLog' = InsertRow(metaLog, loc[r].id, <<metadata>>)
                 /\ Reply(r, req[r], loc[r], Json(200, [id |-> loc[r].id, status |-> "processed"]))
    /\ UNCHANGED <<nextUuid, ops, posted, deleted, API_KEY, borrowed, authorization, settings>>

\* --------------------------------------------- GET /v3/documents/:id
\* Ids a client can name: every uuid generated so far, and one that never is.
Targets == {SeedId, MissingId} \cup {Uuid(n) : n \in 1..nextUuid}

GetDocument(r) ==
    \E id \in Targets, outcome \in StorageOutcomes :
        LET q == [NoReq EXCEPT !.method = "GET", !.path = <<id>>]
            l == [NoLoc EXCEPT !.id = id]
            rows == SelectById(docs, id)
        IN  /\ Dispatch(DocumentRoutes, "GET", <<id>>) = "get"
            /\ Accept(r)
            /\ IF outcome = "error" THEN Throw(r, q, l, "storage")
               ELSE IF Len(rows) = 0
               THEN Reply(r, q, l, Json(404, [error |-> "Document not found"]))
               ELSE Reply(r, q, l, Json(200, [doc |-> Some(Projection(id, rows[1]))]))
            /\ UNCHANGED <<docs, nextUuid, metaLog, posted, deleted, API_KEY, borrowed, settings>>

\* ------------------------------------------------ the UPDATE statements
\* JsonbConcat, had it merged the object under "nested" key by key.
JsonbDeepMerge(m, p) ==
    [k \in DOMAIN m \cup DOMAIN p |->
        IF k \notin DOMAIN p THEN m[k]
        ELSE IF k \in DOMAIN m /\ k = "nested"
        THEN [j \in DOMAIN m[k] \cup DOMAIN p[k] |->
                IF j \in DOMAIN p[k] THEN p[k][j] ELSE m[k][j]]
        ELSE p[k]]

\* JsonbConcat, had the statement been SET metadata = $1::jsonb.
JsonbReplace(m, p) == p

\* metadata || $1::jsonb with both sides objects: the patch's keys win.
JsonbConcat(m, p) ==
    [k \in DOMAIN m \cup DOMAIN p |-> IF k \in DOMAIN p THEN p[k] ELSE m[k]]

\* UPDATE documents SET content = $1, embedding = $2 ... WHERE id = $3
UpdateContent(d, id, content, embedding) ==
    [k \in DOMAIN d |-> IF k = id
                        THEN [d[k] EXCEPT !.content = content, !.embedding = embedding]
                        ELSE d[k]]

\* UPDATE documents SET metadata = metadata || $1::jsonb ... WHERE id = $2
UpdateMetadata(d, id, patch) ==
    [k \in DOMAIN d |-> IF k = id
                        THEN [d[k] EXCEPT !.metadata = JsonbConcat(d[k].metadata, patch)]
                        ELSE d[k]]

Updated(id) == Json(200, [id |-> id, status |-> "updated"])

\* What follows the existence check (or the id check of /v4/memories):
\* if (content) { await generateEmbedding ... } if (metadata) { ... } return
AfterCheck(r, q, id, embedLabel, metaLabel) ==
    LET l == [NoLoc EXCEPT !.id = id]
    IN  IF TruthyText(q.content) THEN Await(r, embedLabel, q, l)
        ELSE IF TruthyObject(q.metadata) THEN Await(r, metaLabel, q, l)
        ELSE Reply(r, q, l, Updated(id))

\* const embedding = await generateEmbedding(content)
UpdateEmbed(r, contentLabel) ==
    /\ \E response \in EmbeddingResponses(<<Slice(req[r].content[1])>>) :
        LET e == generateEmbedding(req[r].content[1], response)
        IN  IF e.threw
            THEN Throw(r, req[r], loc[r], "embedding")
            ELSE Await(r, contentLabel, req[r], [loc[r] EXCEPT !.embedding = e.value])
    /\ UNCHANGED <<docs, nextUuid, ops, metaLog, posted, deleted, API_KEY, borrowed, authorization, settings>>

\* The content UPDATE, then if (metadata) or the return.
UpdateContentStep(r, metaLabel) ==
    /\ \E outcome \in StorageOutcomes :
        IF outcome = "error"
        THEN /\ Throw(r, req[r], loc[r], "storage")
             /\ UNCHANGED <<docs, posted>>
        ELSE /\ docs' = UpdateContent(docs, loc[r].id, req[r].content[1], loc[r].embedding)
             /\ posted' = Forget(posted, {loc[r].id})
             /\ IF TruthyObject(req[r].metadata)
                THEN Await(r, metaLabel, req[r], loc[r])
                ELSE Reply(r, req[r], loc[r], Updated(loc[r].id))
    /\ UNCHANGED <<nextUuid, ops, metaLog, deleted, API_KEY, borrowed, authorization, settings>>

\* The metadata UPDATE, then the return.
UpdateMetadataStep(r) ==
    /\ \E outcome \in StorageOutcomes :
        IF outcome = "error"
        THEN /\ Throw(r, req[r], loc[r], "storage")
             /\ UNCHANGED <<docs, metaLog, posted>>
        ELSE /\ docs' = UpdateMetadata(docs, loc[r].id, req[r].metadata[1])
             /\ metaLog' = [k \in DOMAIN metaLog |->
                              IF k = loc[r].id THEN Append(metaLog[k], req[r].metadata[1])
                              ELSE metaLog[k]]
             /\ posted' = Forget(posted, {loc[r].id})
             /\ Reply(r, req[r], loc[r], Updated(loc[r].id))
    /\ UNCHANGED <<nextUuid, ops, deleted, API_KEY, borrowed, authorization, settings>>

\* -------------------------------------------- PATCH /v3/documents/:id
PatchBegin(r) ==
    \E id \in Targets, body \in PatchBodies, outcome \in StorageOutcomes :
        LET q == [NoReq EXCEPT !.method = "PATCH", !.path = <<id>>,
                               !.content = body.content, !.metadata = body.metadata]
            l == [NoLoc EXCEPT !.id = id]
        IN  /\ Dispatch(DocumentRoutes, "PATCH", <<id>>) = "patch"
            /\ Accept(r)
            /\ IF outcome = "error" THEN Throw(r, q, l, "storage")
               ELSE IF Len(SelectById(docs, id)) = 0
               THEN Reply(r, q, l, Json(404, [error |-> "Document not found"]))
               ELSE AfterCheck(r, q, id, "patch_embed", "patch_meta")
            /\ UNCHANGED <<docs, nextUuid, metaLog, posted, deleted, API_KEY, borrowed, settings>>

PatchEmbed(r) == pc[r] = "patch_embed" /\ UpdateEmbed(r, "patch_content")

PatchContent(r) == pc[r] = "patch_content" /\ UpdateContentStep(r, "patch_meta")

PatchMetadata(r) == pc[r] = "patch_meta" /\ UpdateMetadataStep(r)

\* ------------------------------------------------- PATCH /v4/memories
MemoryIdInputs == {None} \cup {Some(t) : t \in Targets}

MemoryPatchBegin(r) ==
    \E id \in MemoryIdInputs, body \in PatchBodies :
        LET q == [NoReq EXCEPT !.method = "PATCH", !.path = <<"v4", "memories">>,
                               !.id = id, !.content = body.content, !.metadata = body.metadata]
        IN  /\ Accept(r)
            /\ IF ~TruthyText(id)
               THEN Reply(r, q, NoLoc, Json(400, [error |-> "id is required"]))
               ELSE AfterCheck(r, q, id[1], "memory_embed", "memory_meta")
            /\ UNCHANGED <<docs, nextUuid, metaLog, posted, deleted, API_KEY, borrowed, settings>>

MemoryPatchEmbed(r) == pc[r] = "memory_embed" /\ UpdateEmbed(r, "memory_content")

MemoryPatchContent(r) == pc[r] = "memory_content" /\ UpdateContentStep(r, "memory_meta")

MemoryPatchMetadata(r) == pc[r] = "memory_meta" /\ UpdateMetadataStep(r)

\* ------------------------------------- DELETE /v3/documents/<segment>
BulkInputs == {None, Some(<<>>), Some(<<SeedId>>), Some(<<SeedId, MissingId>>)}

Range(s) == {s[i] : i \in 1..Len(s)}

\* DeleteById, had the statement selected the row instead of deleting it.
DeleteByIdKeepsRow(d, id) ==
    IF Len(SelectById(d, id)) = 0
    THEN [docs |-> d, gone |-> {},
          resp |-> Json(404, [error |-> "Document not found"])]
    ELSE [docs |-> d, gone |-> {id},
          resp |-> Json(200, [id |-> id, status |-> "deleted"])]

\* documents.delete("/:id")
DeleteById(d, id) ==
    IF Len(SelectById(d, id)) = 0
    THEN [docs |-> d, gone |-> {},
          resp |-> Json(404, [error |-> "Document not found"])]
    ELSE [docs |-> DeleteIds(d, {id}), gone |-> {id},
          resp |-> Json(200, [id |-> id, status |-> "deleted"])]

\* documents.delete("/bulk"); DELETE ... WHERE id IN () is a syntax error.
DeleteBulk(d, ids) ==
    IF ids = None
    THEN [docs |-> d, gone |-> {}, resp |-> Json(400, [error |-> "ids array is required"])]
    ELSE IF Len(ids[1]) = 0
    THEN [docs |-> d, gone |-> {}, resp |-> InternalError]
    ELSE LET hit == Range(ids[1]) \cap DOMAIN d
         IN  [docs |-> DeleteIds(d, hit), gone |-> {},
              resp |-> Json(200, [deleted |-> hit, count |-> Cardinality(hit)])]

DocumentsDelete(r) ==
    \E segment \in Targets \cup {"bulk"}, outcome \in StorageOutcomes :
      \E ids \in IF segment = "bulk" THEN BulkInputs ELSE {None} :
        LET handler == Dispatch(DocumentRoutes, "DELETE", <<segment>>)
            done == IF handler = "bulk" THEN DeleteBulk(docs, ids)
                    ELSE DeleteById(docs, segment)
            q == [NoReq EXCEPT !.method = "DELETE", !.path = <<segment>>, !.ids = ids]
            l == [NoLoc EXCEPT !.id = segment]
        IN  /\ handler \in {"delete", "bulk"}
            /\ Accept(r)
            /\ IF outcome = "error" /\ ~(handler = "bulk" /\ ids = None)
               THEN /\ Throw(r, q, l, "storage")
                    /\ UNCHANGED <<docs, deleted, metaLog, posted>>
               ELSE /\ docs' = done.docs
                    /\ deleted' = deleted \cup done.gone
                    /\ metaLog' = Forget(metaLog, DOMAIN docs \ DOMAIN done.docs)
                    /\ posted' = Forget(posted, DOMAIN docs \ DOMAIN done.docs)
                    /\ Reply(r, q, l, done.resp)
            /\ UNCHANGED <<nextUuid, API_KEY, borrowed, settings>>

\* ------------------------------------------------ DELETE /v4/memories
MemoryDeleteInputs ==
    {[ids |-> None, containerTag |-> None],
     [ids |-> None, containerTag |-> Some("default")],
     [ids |-> None, containerTag |-> Some("x")],
     [ids |-> Some(<<>>), containerTag |-> None],
     [ids |-> Some(<<SeedId, MissingId>>), containerTag |-> Some("x")]}

\* DeleteWhereTag, had the statement lost its WHERE clause.
DeleteEveryRow(d, tag) == EmptyMap

\* DELETE FROM documents WHERE container_tag = $1 RETURNING id
DeleteWhereTag(d, tag) == [k \in {j \in DOMAIN d : d[j].container_tag # tag} |-> d[k]]

\* memories.delete("/"): by ids when an ids array is given, else by tag.
DeleteMemories(d, ids, containerTag) ==
    IF ids # None
    THEN IF Len(ids[1]) = 0
         THEN \* WHERE id IN (): a syntax error
              [docs |-> d, threw |-> TRUE, resp |-> InternalError]
         ELSE LET left == DeleteIds(d, Range(ids[1]))
              IN  [docs |-> left, threw |-> FALSE,
                   resp |-> Json(200, [deleted |-> Cardinality(DOMAIN d \ DOMAIN left)])]
    ELSE IF TruthyText(containerTag)
    THEN LET left == DeleteWhereTag(d, containerTag[1])
         IN  [docs |-> left, threw |-> FALSE,
              resp |-> Json(200, [deleted |-> Cardinality(DOMAIN d \ DOMAIN left)])]
    ELSE [docs |-> d, threw |-> FALSE, resp |-> Json(400, [error |-> "Provide ids or containerTag"])]

MemoryDelete(r) ==
    \E input \in MemoryDeleteInputs, outcome \in StorageOutcomes :
        LET q == [NoReq EXCEPT !.method = "DELETE", !.path = <<"v4", "memories">>,
                               !.ids = input.ids, !.containerTag = input.containerTag]
            done == DeleteMemories(docs, input.ids, input.containerTag)
        IN  /\ Accept(r)
            /\ IF done.resp.code # 400 /\ (outcome = "error" \/ done.threw)
               THEN /\ Throw(r, q, NoLoc, IF done.threw THEN "syntax" ELSE "storage")
                    /\ UNCHANGED <<docs, metaLog, posted>>
               ELSE /\ docs' = done.docs
                    /\ metaLog' = Forget(metaLog, DOMAIN docs \ DOMAIN done.docs)
                    /\ posted' = Forget(posted, DOMAIN docs \ DOMAIN done.docs)
                    /\ Reply(r, q, NoLoc, done.resp)
            /\ UNCHANGED <<nextUuid, deleted, API_KEY, borrowed, settings>>

\* ------------------------------------------------ the search statements
\* const { q, containerTag, limit = 10, threshold = 0.3 } = body; scores are
\* counted in hundredths.
DefaultLimit == 10
DefaultThreshold == 30

OrDefault(o, default) == IF o = None THEN default ELSE o[1]

\* Where the endpoint's model puts a text: the cosine similarity of two
\* vectors falls with the distance of their texts.
Position(text) == CASE text = "a" -> 0 [] text = "b" -> 1 [] text = "c" -> 2 [] OTHER -> 3

\* 1 - (embedding <=> $1::vector), in hundredths; it can be negative.
Similarity(u, v) ==
    LET d == Position(u.of) - Position(v.of)
    IN  100 - 35 * (IF d < 0 THEN 0 - d ELSE d)

\* The score column of a row: NULL when the parameter is NULL.
Score(embedding, row) ==
    IF embedding = None \/ row.embedding = None THEN None
    ELSE Some(Similarity(row.embedding[1], embedding[1]))

\* WHERE embedding IS NOT NULL [AND container_tag = $2] AND score > $n
WhereV3(d, embedding, containerTag, threshold) ==
    {k \in DOMAIN d :
        /\ d[k].embedding # None
        /\ TruthyText(containerTag) => d[k].container_tag = containerTag[1]
        /\ Score(embedding, d[k]) # None
        /\ Score(embedding, d[k])[1] > threshold}

\* WHERE embedding IS NOT NULL
WhereV4(d) == {k \in DOMAIN d : d[k].embedding # None}

\* idx_documents_embedding is an ivfflat index: a scan through it visits the
\* rows of the probed lists only, a sequential scan visits every row; the
\* planner chooses.
Scans(d) == SUBSET DOMAIN d

\* ORDER BY embedding <=> $1::vector LIMIT n over the rows visited: the n
\* nearest of them, nearest first; rows at the same distance (or with a
\* NULL distance) come in any order.
\* OrderLimit, had the statement lost its ORDER BY.
UnorderedLimit(d, embedding, rows, n) ==
    LET m == IF Cardinality(rows) < n THEN Cardinality(rows) ELSE n
    IN  {s \in [1..m -> rows] : \A i, j \in 1..m : i < j => s[i] # s[j]}

Nearness(d, embedding, k) ==
    IF Score(embedding, d[k]) = None THEN 0 ELSE Score(embedding, d[k])[1]
OrderLimit(d, embedding, rows, n) ==
    LET m == IF Cardinality(rows) < n THEN Cardinality(rows) ELSE n
    IN  {s \in [1..m -> rows] :
            /\ \A i, j \in 1..m : i < j =>
                  /\ s[i] # s[j]
                  /\ Nearness(d, embedding, s[i]) >= Nearness(d, embedding, s[j])
            /\ \A k \in rows \ {s[i] : i \in 1..m} : \A i \in 1..m :
                  Nearness(d, embedding, s[i]) >= Nearness(d, embedding, k)}

\* result.rows.map(...) of the two handlers; parseFloat(null) is NaN, sent
\* as null.
HitV3(d, embedding, k) ==
    [id |-> k, content |-> d[k].content, metadata |-> d[k].metadata,
     containerTag |-> d[k].container_tag, score |-> Score(embedding, d[k])]
HitV4(d, embedding, k) ==
    [id |-> k, content |-> d[k].content, metadata |-> d[k].metadata,
     score |-> Score(embedding, d[k])]

\* ------------------------------------- POST /v3/search, POST /v4/search
SearchBody(q, containerTag, limit, threshold) ==
    [q |-> q, containerTag |-> containerTag, limit |-> limit, threshold |-> threshold]
SearchBodies ==
    {SearchBody(None, None, None, None),
     SearchBody(Some(""), None, None, None),
     SearchBody(Some("a"), None, None, None),
     SearchBody(Some("a"), Some("x"), None, Some(0)),
     SearchBody(Some("a"), None, Some(1), Some(65)),
     SearchBody(Some("b"), None, Some(2), None)}
SearchV4Bodies == {SearchBody(b.q, None, b.limit, None) : b \in SearchBodies}

\* MissingQuery, had the check been q === undefined.
UndefinedQuery(q) == q = None

\* if (!q)
MissingQuery(q) == ~TruthyText(q)

\* The body is read and q checked; then await generateEmbedding(q).
QueryBegin(r, path, body, embedLabel) ==
    LET q == [NoReq EXCEPT !.method = "POST", !.path = path, !.q = body.q,
                           !.containerTag = body.containerTag, !.limit = body.limit,
                           !.threshold = body.threshold]
    IN  /\ Accept(r)
        /\ IF MissingQuery(body.q)
           THEN Reply(r, q, NoLoc, Json(400, [error |-> "q (query) is required"]))
           ELSE Await(r, embedLabel, q, NoLoc)
        /\ UNCHANGED <<docs, nextUuid, metaLog, posted, deleted, API_KEY, borrowed, settings>>

\* const embedding = await generateEmbedding(q)
QueryEmbed(r, queryLabel) ==
    /\ \E response \in EmbeddingResponses(<<Slice(req[r].q[1])>>) :
        LET e == generateEmbedding(req[r].q[1], response)
        IN  IF e.threw
            THEN Throw(r, req[r], loc[r], "embedding")
            ELSE Await(r, queryLabel, req[r], [loc[r] EXCEPT !.embedding = e.value])
    /\ UNCHANGED <<docs, nextUuid, ops, metaLog, posted, deleted, API_KEY, borrowed, authorization, settings>>

SearchBegin(r) ==
    \E body \in SearchBodies : QueryBegin(r, <<"v3", "search">>, body, "search_embed")

SearchEmbed(r) == pc[r] = "search_embed" /\ QueryEmbed(r, "search_query")

SearchQuery(r) ==
    /\ pc[r] = "search_query"
    /\ \E outcome \in StorageOutcomes, scan \in Scans(docs) :
        IF outcome = "error" THEN Throw(r, req[r], loc[r], "storage")
        ELSE LET e == loc[r].embedding
                 rows == scan \cap WhereV3(docs, e, req[r].containerTag,
                                           OrDefault(req[r].threshold, DefaultThreshold))
             IN  \E s \in OrderLimit(docs, e, rows, OrDefault(req[r].limit, DefaultLimit)) :
                    Reply(r, req[r], loc[r],
                          Json(200, [results |-> [i \in 1..Len(s) |-> HitV3(docs, e, s[i])],
                                     count |-> Len(s)]))
    /\ UNCHANGED <<docs, nextUuid, ops, metaLog, posted, deleted, API_KEY, borrowed, authorization, settings>>

SearchV4Begin(r) ==
    \E body \in SearchV4Bodies : QueryBegin(r, <<"v4", "search">>, body, "searchV4_embed")

SearchV4Embed(r) == pc[r] = "searchV4_embed" /\ QueryEmbed(r, "searchV4_query")

SearchV4Query(r) ==
    /\ pc[r] = "searchV4_query"
    /\ \E outcome \in StorageOutcomes, scan \in Scans(docs) :
        IF outcome = "error" THEN Throw(r, req[r], loc[r], "storage")
        ELSE LET e == loc[r].embedding
                 rows == scan \cap WhereV4(docs)
             IN  \E s \in OrderLimit(docs, e, rows, OrDefault(req[r].limit, DefaultLimit)) :
                    Reply(r, req[r], loc[r],
                          Json(200, [memories |-> [i \in 1..Len(s) |-> HitV4(docs, e, s[i])]]))
    /\ UNCHANGED <<docs, nextUuid, ops, metaLog, posted, deleted, API_KEY, borrowed, authorization, settings>>

\* ----------------------------------------------- 401 and GET /health
\* Requests under /v3 and /v4 that the middleware can refuse.
GuardedRequests ==
    {[NoReq EXCEPT !.method = "POST"],
     [NoReq EXCEPT !.method = "GET", !.path = <<SeedId>>],
     [NoReq EXCEPT !.method = "DELETE", !.path = <<"v4", "memories">>,
                   !.containerTag = Some("default")],
     [NoReq EXCEPT !.method = "POST", !.path = <<"v4", "search">>, !.q = Some("a")]}

\* return c.json({ error: "Unauthorized" }, 401), without next().
Unauthorized(r) ==
    \E q \in GuardedRequests, header \in Headers(API_KEY) :
        /\ pc[r] = "idle"
        /\ ops < MaxOps
        /\ ops' = ops + 1
        /\ Middleware(API_KEY, header) = "401"
        /\ authorization' = header
        /\ Reply(r, q, NoLoc, Json(401, [error |-> "Unauthorized"]))
        /\ UNCHANGED <<docs, nextUuid, metaLog, posted, deleted, API_KEY, borrowed, settings>>

\* app.get("/health"): registered outside /v3 and /v4.
Health(r) ==
    \E header \in Headers(API_KEY) :
        /\ pc[r] = "idle"
        /\ ops < MaxOps
        /\ ops' = ops + 1
        /\ authorization' = header
        /\ Reply(r, [NoReq EXCEPT !.method = "GET", !.path = <<"health">>], NoLoc,
                 Json(200, [status |-> "ok"]))
        /\ UNCHANGED <<docs, nextUuid, metaLog, posted, deleted, API_KEY, borrowed, settings>>

\* ------------------------------------- GET and PATCH /v3/settings
SettingsPatches ==
    {[autoRecall |-> "true"], [minScore |-> "0.5"], [nested |-> [y |-> "2"]]}

\* SELECT data FROM settings WHERE id = 'default'; result.rows[0]?.data ?? {}
SelectSettings(s) == IF s.row = None THEN EmptyMap ELSE s.row[1]

\* UPDATE settings SET data = data || $1::jsonb WHERE id = 'default'
UpdateSettings(s, patch) ==
    IF s.row = None THEN s ELSE [s EXCEPT !.row = Some(JsonbConcat(s.row[1], patch))]

SettingsGet(r) ==
    \E outcome \in StorageOutcomes :
        LET q == [NoReq EXCEPT !.method = "GET", !.path = <<"v3", "settings">>]
        IN  /\ Accept(r)
            /\ IF outcome = "error" \/ ~settings.exists
               THEN Throw(r, q, NoLoc, "storage")
               ELSE Reply(r, q, NoLoc, Json(200, [data |-> Some(SelectSettings(settings))]))
            /\ UNCHANGED <<docs, nextUuid, metaLog, posted, deleted, API_KEY, borrowed, settings>>

\* The body is read and the UPDATE runs.
SettingsPatchUpdate(r) ==
    \E body \in SettingsPatches, outcome \in StorageOutcomes :
        LET q == [NoReq EXCEPT !.method = "PATCH", !.path = <<"v3", "settings">>,
                               !.body = Some(body)]
        IN  /\ Accept(r)
            /\ IF outcome = "error" \/ ~settings.exists
               THEN /\ Throw(r, q, NoLoc, "storage")
                    /\ UNCHANGED settings
               ELSE /\ settings' = UpdateSettings(settings, body)
                    /\ Await(r, "settings_select", q, NoLoc)
            /\ UNCHANGED <<docs, nextUuid, metaLog, posted, deleted, API_KEY, borrowed>>

\* The SELECT after the UPDATE, and the answer.
SettingsPatchSelect(r) ==
    /\ pc[r] = "settings_select"
    /\ \E outcome \in StorageOutcomes :
        IF outcome = "error" \/ ~settings.exists
        THEN Throw(r, req[r], loc[r], "storage")
        ELSE Reply(r, req[r], loc[r], Json(200, [data |-> Some(SelectSettings(settings))]))
    /\ UNCHANGED <<docs, nextUuid, ops, metaLog, posted, deleted, API_KEY, borrowed, authorization, settings>>

\* --------------------------------------------------------------- migrate
\* A run of migrate() takes a slot like a request does; a statement that
\* fails ends the run (process.exit(1)).
\* InsertDefaultSettings, had the statement been ON CONFLICT (id) DO UPDATE
\* SET data = '{}'.
UpsertDefaultSettings(s) == [s EXCEPT !.row = Some(EmptyMap)]

\* INSERT INTO settings (id, data) VALUES ('default', '{}') ON CONFLICT (id) DO NOTHING
InsertDefaultSettings(s) == IF s.row = None THEN [s EXCEPT !.row = Some(EmptyMap)] ELSE s

\* The extensions, CREATE TABLE IF NOT EXISTS documents and its indexes: no
\* row of an existing table changes.
MigrateBegin(r) ==
    \E outcome \in StorageOutcomes :
        LET q == [NoReq EXCEPT !.method = "migrate"]
        IN  /\ pc[r] = "idle"
            /\ ops < MaxOps
            /\ ops' = ops + 1
            /\ IF outcome = "error" THEN Throw(r, q, NoLoc, "storage")
               ELSE Await(r, "migrate_settings", q, NoLoc)
            /\ UNCHANGED <<docs, nextUuid, metaLog, posted, deleted, API_KEY, borrowed,
                           authorization, settings>>

\* CREATE TABLE IF NOT EXISTS settings
MigrateSettingsTable(r) ==
    /\ pc[r] = "migrate_settings"
    /\ \E outcome \in StorageOutcomes :
        IF outcome = "error"
        THEN /\ Throw(r, req[r], loc[r], "storage")
             /\ UNCHANGED settings
        ELSE /\ settings' = [settings EXCEPT !.exists = TRUE]
             /\ Await(r, "migrate_row", req[r], loc[r])
    /\ UNCHANGED <<docs, nextUuid, ops, metaLog, posted, deleted, API_KEY, borrowed, authorization>>

\* The INSERT of the settings row, then "Migrations complete.".
MigrateSettingsRow(r) ==
    /\ pc[r] = "migrate_row"
    /\ \E outcome \in StorageOutcomes :
        IF outcome = "error"
        THEN /\ Throw(r, req[r], loc[r], "storage")
             /\ UNCHANGED settings
        ELSE /\ settings' = InsertDefaultSettings(settings)
             /\ Reply(r, req[r], loc[r], [NoResp EXCEPT !.status = "Migrations complete."])
    /\ UNCHANGED <<docs, nextUuid, ops, metaLog, posted, deleted, API_KEY, borrowed, authorization>>

\* -------------------------------------------- POST /v3/documents/list
\* const { containerTag, limit = 50, offset = 0 } = body
DefaultListLimit == 50
DefaultOffset == 0

ListInputs ==
    {[containerTag |-> None, limit |-> None, offset |-> None],
     [containerTag |-> Some("x"), limit |-> None, offset |-> None],
     [containerTag |-> None, limit |-> Some(1), offset |-> None],
     [containerTag |-> None, limit |-> Some(1), offset |-> Some(1)]}

\* FROM documents [WHERE container_tag = $1]
Matching(d, containerTag) ==
    {k \in DOMAIN d : TruthyText(containerTag) => d[k].container_tag = containerTag[1]}

\* CountDocuments, had the count statement lost its WHERE clause.
CountEveryDocument(d, containerTag) == Cardinality(DOMAIN d)

\* SELECT COUNT(*) as total FROM documents [WHERE container_tag = $1]
CountDocuments(d, containerTag) == Cardinality(Matching(d, containerTag))

\* ORDER BY created_at DESC LIMIT $n OFFSET $m: rows of the same created_at
\* come in any order.
SelectPage(d, containerTag, limit, offset) ==
    LET rows == Matching(d, containerTag)
        n == Cardinality(rows)
        left == IF n < offset THEN 0 ELSE n - offset
        len == IF left < limit THEN left ELSE limit
    IN  {[i \in 1..len |-> s[offset + i]] :
            s \in {t \in [1..n -> rows] :
                     \A i, j \in 1..n : i < j =>
                        /\ t[i] # t[j]
                        /\ d[t[i]].created_at >= d[t[j]].created_at}}

\* result.rows.map(...) of the list handler.
ListedDocument(d, k) ==
    [id |-> k, content |-> d[k].content, metadata |-> d[k].metadata,
     containerTag |-> d[k].container_tag, status |-> d[k].status,
     createdAt |-> d[k].created_at]

\* The body is read and the page is selected.
ListBegin(r) ==
    \E input \in ListInputs, outcome \in StorageOutcomes :
        LET q == [NoReq EXCEPT !.method = "POST", !.path = <<"list">>,
                               !.containerTag = input.containerTag,
                               !.limit = input.limit, !.offset = input.offset]
        IN  /\ Dispatch(DocumentRoutes, "POST", <<"list">>) = "list"
            /\ Accept(r)
            /\ IF outcome = "error" THEN Throw(r, q, NoLoc, "storage")
               ELSE \E page \in SelectPage(docs, input.containerTag,
                                            OrDefault(input.limit, DefaultListLimit),
                                            OrDefault(input.offset, DefaultOffset)) :
                      Await(r, "list_count", q,
                            [NoLoc EXCEPT !.rows = [i \in 1..Len(page) |-> ListedDocument(docs, page[i])],
                                          !.seen = docs])
            /\ UNCHANGED <<docs, nextUuid, metaLog, posted, deleted, API_KEY, borrowed, settings>>

\* The count is selected, and the answer sent.
ListCount(r) ==
    /\ pc[r] = "list_count"
    /\ \E outcome \in StorageOutcomes :
        IF outcome = "error" THEN Throw(r, req[r], loc[r], "storage")
        ELSE Reply(r, req[r], loc[r],
                   Json(200, [documents |-> loc[r].rows,
                              total |-> CountDocuments(docs, req[r].containerTag)]))
    /\ UNCHANGED <<docs, nextUuid, ops, metaLog, posted, deleted, API_KEY, borrowed, authorization, settings>>

\* ---------------------------------------------------------------- query()
\* Three handlers at the grain of query(): the handler is suspended once at
\* await getPool().connect() and once at await client.query(text, params).

\* const client = await getPool().connect()
Borrow(b) == b + 1

\* Release, had query() released the client after the statement returned
\* only, with no finally.
ReleaseOnReturn(b, threw) == IF threw THEN b ELSE b - 1

\* finally { client.release() }
Release(b, threw) == b - 1

\* Where a handler waits for its client, and where it then waits for its
\* statement.
Statements == [get_connect |-> "get_query", delete_connect |-> "delete_query",
               update_connect |-> "update_query", select_connect |-> "select_query"]

Executing == {r \in Slots : pc[r] \in {Statements[c] : c \in DOMAIN Statements}}

\* GET /v3/documents/:id calls query().
QueryGet(r) ==
    \E id \in Targets :
        LET q == [NoReq EXCEPT !.method = "GET", !.path = <<id>>]
        IN  /\ Dispatch(DocumentRoutes, "GET", <<id>>) = "get"
            /\ Accept(r)
            /\ Await(r, "get_connect", q, [NoLoc EXCEPT !.id = id])
            /\ UNCHANGED <<docs, nextUuid, metaLog, posted, deleted, API_KEY, settings,
                           borrowed>>

\* DELETE /v3/documents/:id calls query().
QueryDelete(r) ==
    \E id \in Targets :
        LET q == [NoReq EXCEPT !.method = "DELETE", !.path = <<id>>]
        IN  /\ Dispatch(DocumentRoutes, "DELETE", <<id>>) = "delete"
            /\ Accept(r)
            /\ Await(r, "delete_connect", q, [NoLoc EXCEPT !.id = id])
            /\ UNCHANGED <<docs, nextUuid, metaLog, posted, deleted, API_KEY, settings,
                           borrowed>>

\* PATCH /v3/settings calls query() for its UPDATE.
QueryUpdateSettings(r) ==
    \E body \in SettingsPatches :
        LET q == [NoReq EXCEPT !.method = "PATCH", !.path = <<"v3", "settings">>,
                               !.body = Some(body)]
        IN  /\ Accept(r)
            /\ Await(r, "update_connect", q, NoLoc)
            /\ UNCHANGED <<docs, nextUuid, metaLog, posted, deleted, API_KEY, settings,
                           borrowed>>

\* getPool().connect() resolves with a client, or rejects and query() throws
\* before its try block.
Connect(r) ==
    /\ pc[r] \in DOMAIN Statements
    /\ \E outcome \in StorageOutcomes :
        IF outcome = "error"
        THEN /\ Throw(r, req[r], loc[r], "connect")
             /\ UNCHANGED borrowed
        ELSE /\ Await(r, Statements[pc[r]], req[r], loc[r])
             /\ borrowed' = Borrow(borrowed)
    /\ UNCHANGED <<docs, nextUuid, ops, metaLog, posted, deleted, API_KEY, authorization,
                   settings>>

\* client.query of the SELECT of GET /v3/documents/:id returns or throws.
RunGet(r) ==
    /\ pc[r] = "get_query"
    /\ \E outcome \in StorageOutcomes :
        LET rows == SelectById(docs, loc[r].id)
        IN  /\ borrowed' = Release(borrowed, outcome = "error")
            /\ IF outcome = "error" THEN Throw(r, req[r], loc[r], "storage")
               ELSE IF Len(rows) = 0
               THEN Reply(r, req[r], loc[r], Json(404, [error |-> "Document not found"]))
               ELSE Reply(r, req[r], loc[r],
                          Json(200, [doc |-> Some(Projection(loc[r].id, rows[1]))]))
    /\ UNCHANGED <<docs, nextUuid, ops, metaLog, posted, deleted, API_KEY, authorization,
                   settings>>

\* client.query of the DELETE of DELETE /v3/documents/:id returns or throws.
RunDelete(r) ==
    /\ pc[r] = "delete_query"
    /\ \E outcome \in StorageOutcomes :
        LET done == DeleteById(docs, loc[r].id)
        IN  /\ borrowed' = Release(borrowed, outcome = "error")
            /\ IF outcome = "error"
               THEN /\ Throw(r, req[r], loc[r], "storage")
                    /\ UNCHANGED <<docs, deleted, metaLog, posted>>
               ELSE /\ docs' = done.docs
                    /\ deleted' = deleted \cup done.gone
                    /\ metaLog' = Forget(metaLog, DOMAIN docs \ DOMAIN done.docs)
                    /\ posted' = Forget(posted, DOMAIN docs \ DOMAIN done.docs)
                    /\ Reply(r, req[r], loc[r], done.resp)
    /\ UNCHANGED <<nextUuid, ops, API_KEY, authorization, settings>>

\* client.query of the UPDATE of PATCH /v3/settings returns, and query() is
\* called for the SELECT; or it throws.
RunUpdateSettings(r) ==
    /\ pc[r] = "update_query"
    /\ \E outcome \in StorageOutcomes :
        /\ borrowed' = Release(borrowed, outcome = "error" \/ ~settings.exists)
        /\ IF outcome = "error" \/ ~settings.exists
           THEN /\ Throw(r, req[r], loc[r], "storage")
                /\ UNCHANGED settings
           ELSE /\ settings' = UpdateSettings(settings, req[r].body[1])
                /\ Await(r, "select_connect", req[r], loc[r])
    /\ UNCHANGED <<docs, nextUuid, ops, metaLog, posted, deleted, API_KEY, authorization>>

\* client.query of the SELECT of PATCH /v3/settings returns or throws.
RunSelectSettings(r) ==
    /\ pc[r] = "select_query"
    /\ \E outcome \in StorageOutcomes :
        /\ borrowed' = Release(borrowed, outcome = "error" \/ ~settings.exists)
        /\ IF outcome = "error" \/ ~settings.exists
           THEN Throw(r, req[r], loc[r], "storage")
           ELSE Reply(r, req[r], loc[r], Json(200, [data |-> Some(SelectSettings(settings))]))
    /\ UNCHANGED <<docs, nextUuid, ops, metaLog, posted, deleted, API_KEY, authorization,
                   settings>>

\* ------------------------------------------------------------------ spec
Next ==
    \E r \in Slots :
        \/ AddBegin(r) \/ AddEmbed(r) \/ AddInsert(r)
        \/ BatchBegin(r) \/ BatchEmbed(r) \/ BatchInsert(r)
        \/ FileBegin(r) \/ FileEmbed(r) \/ FileInsert(r)
        \/ GetDocument(r)
        \/ PatchBegin(r) \/ PatchEmbed(r) \/ PatchContent(r) \/ PatchMetadata(r)
        \/ MemoryPatchBegin(r) \/ MemoryPatchEmbed(r) \/ MemoryPatchContent(r)
        \/ MemoryPatchMetadata(r)
        \/ DocumentsDelete(r)
        \/ MemoryDelete(r)

Spec == Init /\ [][Next]_vars

\* The search endpoints over tables that earlier requests left: documents
\* of both tags, two at the same distance, one whose embedding is NULL.
SearchRow(content, embedding, tag) ==
    Row(content, EmptyMap, embedding, tag) @@ [created_at |-> 0]
InitialSearchTables ==
    {[k \in {"s1", "s2", "s3", "s4"} |->
        CASE k = "s1" -> SearchRow("a", Some(Vector("a")), "default")
          [] k = "s2" -> SearchRow("b", Some(Vector("b")), "x")
          [] k = "s3" -> SearchRow("c", Some(Vector("c")), "default")
          [] OTHER    -> SearchRow("a", None, "x")],
     [k \in {"s2", "s5"} |->
        IF k = "s2" THEN SearchRow("b", Some(Vector("b")), "x")
        ELSE SearchRow("b", Some(Vector("b")), "default")]}

SearchInit ==
    /\ docs \in InitialSearchTables
    /\ nextUuid = 0
    /\ ops = 0
    /\ req = [r \in Slots |-> NoReq]
    /\ pc = [r \in Slots |-> "idle"]
    /\ loc = [r \in Slots |-> NoLoc]
    /\ out = NoAnswer
    /\ metaLog = [k \in DOMAIN docs |-> <<docs[k].metadata>>]
    /\ posted = EmptyMap
    /\ deleted = {}
    /\ settings = SettingsTable(Some(EmptyMap))
    /\ API_KEY = None
    /\ authorization = None
    /\ borrowed = 0

SearchNext ==
    \E r \in Slots :
        \/ SearchBegin(r) \/ SearchEmbed(r) \/ SearchQuery(r)
        \/ SearchV4Begin(r) \/ SearchV4Embed(r) \/ SearchV4Query(r)

SearchSpec == SearchInit /\ [][SearchNext]_vars

\* The server with or without SUPERMEMORY_API_KEY in its environment.
AuthInit ==
    /\ docs \in InitialTables
    /\ nextUuid = 0
    /\ ops = 0
    /\ req = [r \in Slots |-> NoReq]
    /\ pc = [r \in Slots |-> "idle"]
    /\ loc = [r \in Slots |-> NoLoc]
    /\ out = NoAnswer
    /\ metaLog = [k \in DOMAIN docs |-> <<docs[k].metadata>>]
    /\ posted = EmptyMap
    /\ deleted = {}
    /\ settings = SettingsTable(Some(EmptyMap))
    /\ API_KEY \in {None, Some("K")}
    /\ authorization = None
    /\ borrowed = 0

AuthNext ==
    \E r \in Slots :
        \/ Unauthorized(r) \/ Health(r)
        \/ AddBegin(r) \/ AddEmbed(r) \/ AddInsert(r)
        \/ GetDocument(r)
        \/ MemoryDelete(r)
        \/ SearchV4Begin(r) \/ SearchV4Embed(r) \/ SearchV4Query(r)

AuthSpec == AuthInit /\ [][AuthNext]_vars

\* The settings routes and migrate over a database that has never been
\* migrated (no table, no document) or that earlier runs left with settings.
InitialSettings == {EmptyMap, [autoRecall |-> "true"], [nested |-> [x |-> "1"]]}

SettingsInit ==
    /\ docs \in InitialTables
    /\ settings \in {NoSettingsTable} \cup {SettingsTable(Some(m)) : m \in InitialSettings}
    /\ settings.exists \/ docs = EmptyMap
    /\ nextUuid = 0
    /\ ops = 0
    /\ req = [r \in Slots |-> NoReq]
    /\ pc = [r \in Slots |-> "idle"]
    /\ loc = [r \in Slots |-> NoLoc]
    /\ out = NoAnswer
    /\ metaLog = [k \in DOMAIN docs |-> <<docs[k].metadata>>]
    /\ posted = EmptyMap
    /\ deleted = {}
    /\ API_KEY = None
    /\ authorization = None
    /\ borrowed = 0

SettingsNext ==
    \E r \in Slots :
        \/ SettingsGet(r) \/ SettingsPatchUpdate(r) \/ SettingsPatchSelect(r)
        \/ MigrateBegin(r) \/ MigrateSettingsTable(r) \/ MigrateSettingsRow(r)

SettingsSpec == SettingsInit /\ [][SettingsNext]_vars

\* The list route beside requests that insert and delete documents.
ListNext ==
    \E r \in Slots :
        \/ ListBegin(r) \/ ListCount(r)
        \/ AddBegin(r) \/ AddEmbed(r) \/ AddInsert(r)
        \/ DocumentsDelete(r)

ListSpec == Init /\ [][ListNext]_vars

\* Requests whose statements go through query() step by step.
PoolNext ==
    \E r \in Slots :
        \/ QueryGet(r) \/ QueryDelete(r) \/ QueryUpdateSettings(r)
        \/ Connect(r)
        \/ RunGet(r) \/ RunDelete(r) \/ RunUpdateSettings(r) \/ RunSelectSettings(r)

PoolSpec == Init /\ [][PoolNext]_vars

TypeOK ==
    /\ nextUuid \in 0..MaxIds
    /\ ops \in 0..MaxOps
    /\ DOMAIN docs \subseteq {SeedId} \cup {Uuid(n) : n \in 1..nextUuid}
    /\ DOMAIN metaLog = DOMAIN docs
    /\ out.resp.code \in {0, 200, 400, 404, 500}
    /\ borrowed \in 0..Cardinality(Slots)

\* ---------------------------------------------------------------- claims
StoredIds == DOMAIN docs

\* C1: a document added by POST /v3/documents and not updated or deleted
\* since is returned by GET /v3/documents/:id with the same id and content,
\* status "processed", the supplied tag or "default", and its stored row has
\* a non-null embedding.
C1_InsertThenGet ==
    (out.method = "GET" /\ out.thrown = "" /\ out.id \in DOMAIN posted) =>
        /\ out.resp.code = 200
        /\ out.resp.doc # None
        /\ out.resp.doc[1].id = out.id
        /\ out.resp.doc[1].content = posted[out.id].content[1]
        /\ out.resp.doc[1].status = "processed"
        /\ out.resp.doc[1].containerTag =
              (IF posted[out.id].containerTag = None THEN "default"
               ELSE posted[out.id].containerTag[1])
        /\ docs[out.id].embedding # None

C3_NoNullEmbedding == \A id \in StoredIds : docs[id].embedding # None

\* C4: no stored document has empty content.
C4_NoEmptyContent == \A id \in StoredIds : docs[id].content # ""

\* C5: when the embedding call of POST /v3/documents/batch fails, the
\* request fails and none of its documents is stored.
C5_BatchEmbeddingFailure ==
    (out.method = "POST" /\ out.path = <<"batch">> /\ out.thrown = "embedding") =>
        /\ out.resp.code = 500
        /\ out.made \cap StoredIds = {}

C5_Witness ==
    /\ out.method = "POST" /\ out.path = <<"batch">> /\ out.thrown = "embedding"
    /\ \E r \in Slots : pc[r] = "idle" /\ ops = 1

\* C6: an update naming an id that is not in the store is answered 404, not
\* "updated", through PATCH /v3/documents/:id and PATCH /v4/memories alike.
C6_UpdateAbsentNotFound ==
    (out.method = "PATCH" /\ out.id = MissingId /\ out.thrown = "") =>
        /\ out.resp.code = 404
        /\ out.resp.status # "updated"

\* C7: each stored document's embedding is the vector computed from its
\* current content.
C7_EmbeddingMatchesContent ==
    \A id \in StoredIds : docs[id].embedding = Some(Vector(Slice(docs[id].content)))

\* C8: the stored metadata of a document is its first metadata with every
\* metadata patch written to it since merged in, in order, key by key: each
\* key holds the value of the latest mapping that mentions it.
Mentions(log, k) == {i \in 1..Len(log) : k \in DOMAIN log[i]}
Latest(log, k) == CHOOSE i \in Mentions(log, k) : \A j \in Mentions(log, k) : j <= i
C8_MetadataShallowMerge ==
    \A id \in StoredIds :
        /\ DOMAIN docs[id].metadata = UNION {DOMAIN metaLog[id][i] : i \in 1..Len(metaLog[id])}
        /\ \A k \in DOMAIN docs[id].metadata :
              docs[id].metadata[k] = metaLog[id][Latest(metaLog[id], k)][k]

C8_Witness ==
    \E id \in StoredIds :
        /\ Len(metaLog[id]) = 3
        /\ metaLog[id][2] = [a |-> "1"]
        /\ metaLog[id][3] = [b |-> "2"]
        /\ docs[id].metadata = [a |-> "1", b |-> "2"]

\* C9: once DELETE /v3/documents/:id has answered "deleted" for an id, GET
\* of that id answers 404; DELETE of an id that is not stored answers 404
\* and leaves the table as it was.
C9_DeleteThenNotFound ==
    [][ /\ (out'.method = "GET" /\ out'.thrown = "" /\ out'.id \in deleted)
            => out'.resp.code = 404
        /\ (out'.method = "DELETE" /\ Len(out'.path) = 1 /\ out'.thrown = ""
              /\ out'.id \notin StoredIds)
            => (out'.resp.code = 404 /\ docs' = docs) ]_vars

C9_Witness ==
    /\ out.method = "GET" /\ out.thrown = "" /\ out.id \in deleted
    /\ out.resp.code = 404

\* C10: DELETE /v3/documents/bulk with an ids array removes exactly the
\* stored documents named in it and answers {deleted, count} for them.
C10_BulkDelete ==
    [][ (out'.method = "DELETE" /\ out'.path = <<"bulk">> /\ out'.ids # None /\ out'.thrown = "")
        => LET hit == Range(out'.ids[1]) \cap StoredIds
           IN  /\ out'.resp.code = 200
               /\ out'.resp.deleted = hit
               /\ out'.resp.count = Cardinality(hit)
               /\ docs' = DeleteIds(docs, hit) ]_vars

\* C11: DELETE /v4/memories with a containerTag and no ids removes exactly
\* the stored documents of that tag, leaves every other document as it was,
\* and answers with the number of documents removed.
C11_DeleteByTag ==
    [][ (/\ out'.method = "DELETE" /\ out'.path = <<"v4", "memories">>
         /\ out'.ids = None /\ TruthyText(out'.containerTag) /\ out'.thrown = "")
        => LET hit == {k \in StoredIds : docs[k].container_tag = out'.containerTag[1]}
           IN  /\ out'.resp.code = 200
               /\ DOMAIN docs' = StoredIds \ hit
               /\ \A k \in DOMAIN docs' : docs'[k] = docs[k]
               /\ out'.resp.deleted = Cardinality(hit) ]_vars

C11_Witness ==
    /\ out.method = "DELETE" /\ out.path = <<"v4", "memories">> /\ out.ids = None
    /\ out.containerTag = Some("default") /\ out.thrown = ""
    /\ out.resp.deleted = 1
    /\ \E k \in StoredIds : docs[k].container_tag = "x"

\* What a search request asked for, read off its answer.
IsSearch(a, path) == a.method = "POST" /\ a.path = path
QueryVector(a) == Some(Vector(Slice(a.q[1])))
Eligible(a) ==
    {k \in StoredIds :
        /\ docs[k].embedding # None
        /\ Similarity(docs[k].embedding[1], QueryVector(a)[1]) > OrDefault(a.threshold, DefaultThreshold)
        /\ TruthyText(a.containerTag) => docs[k].container_tag = a.containerTag[1]}
Smaller(m, n) == IF m < n THEN m ELSE n

\* C12: POST /v3/search returns exactly the (at most limit) highest-scoring
\* documents among those with a non-null embedding, a score strictly above
\* the threshold and the requested tag; no other document is returned.
C12_SearchReturnsBest ==
    (IsSearch(out, <<"v3", "search">>) /\ TruthyText(out.q) /\ out.thrown = "") =>
        LET hits == out.resp.results
            ids == {hits[i].id : i \in 1..Len(hits)}
            score(k) == Similarity(docs[k].embedding[1], QueryVector(out)[1])
        IN  /\ out.resp.code = 200
            /\ ids \subseteq Eligible(out)
            /\ Cardinality(ids) = Len(hits)
            /\ Len(hits) = Smaller(Cardinality(Eligible(out)), OrDefault(out.limit, DefaultLimit))
            /\ \A k \in Eligible(out) \ ids : \A j \in ids : score(j) >= score(k)

\* C13: in every answer of POST /v3/search and POST /v4/search the scores of
\* the hits never increase along the result order.
Hits(a) == IF a.path = <<"v3", "search">> THEN a.resp.results ELSE a.resp.memories
C13_ScoresNonIncreasing ==
    ((IsSearch(out, <<"v3", "search">>) \/ IsSearch(out, <<"v4", "search">>)) /\ out.thrown = "") =>
        \A i, j \in 1..Len(Hits(out)) :
            (i < j /\ Hits(out)[i].score # None /\ Hits(out)[j].score # None)
                => Hits(out)[i].score[1] >= Hits(out)[j].score[1]

C13_Witness ==
    /\ IsSearch(out, <<"v4", "search">>) /\ out.thrown = ""
    /\ Len(Hits(out)) = 3
    /\ Hits(out)[1].score = Some(100) /\ Hits(out)[2].score = Some(65)
    /\ Hits(out)[3].score = Some(30)

\* C14: POST /v4/search answers with the ids and scores, in the order, that
\* POST /v3/search gives for the same q and limit with no containerTag and
\* the default threshold.
C14_SearchV4LikeV3 ==
    (IsSearch(out, <<"v4", "search">>) /\ out.resp.code = 200 /\ out.thrown = "") =>
        \E e \in {None, QueryVector(out)}, scan \in Scans(docs) :
            \E s \in OrderLimit(docs, e, scan \cap WhereV3(docs, e, None, DefaultThreshold),
                                OrDefault(out.limit, DefaultLimit)) :
                /\ Len(s) = Len(out.resp.memories)
                /\ \A i \in 1..Len(s) :
                      /\ out.resp.memories[i].id = s[i]
                      /\ out.resp.memories[i].score = Score(e, docs[s[i]])

\* C15: a search request (v3 or v4) whose q is missing or empty is answered
\* 400 in the step that accepts it: before any embedding call or storage
\* statement of its handler, which are later steps of their own.
C15_SearchRequiresQuery ==
    [][ ((IsSearch(out', <<"v3", "search">>) \/ IsSearch(out', <<"v4", "search">>))
         /\ ~TruthyText(out'.q))
        => /\ out'.resp.code = 400 /\ out'.thrown = ""
           /\ out'.resp.results = <<>> /\ out'.resp.memories = <<>>
           /\ ops' = ops + 1
           /\ docs' = docs ]_vars

C15_Witness ==
    /\ IsSearch(out, <<"v4", "search">>) /\ out.q = Some("") /\ out.resp.code = 400
    /\ ops = 2

\* C16: with an API key K configured, a request under /v3 or /v4 reaches its
\* handler only if its Authorization header is exactly "Bearer K"; with any
\* other header or none it is answered 401 in the step that receives it and
\* nothing stored changes. GET /health is answered 200 whatever the header
\* and the configuration.
C16_BearerOnly ==
    [][ ops' = ops + 1 =>
          IF out'.method = "GET" /\ out'.path = <<"health">>
          THEN out'.resp.code = 200
          ELSE TruthyText(API_KEY) =>
                 IF authorization' = Some("Bearer " \o API_KEY[1])
                 THEN out'.resp.code # 401
                 ELSE /\ out'.resp.code = 401
                      /\ docs' = docs /\ settings' = settings /\ pc' = pc ]_vars

\* C17: settings change only by shallow top-level merge. A PATCH
\* /v3/settings writes, key by key, the patch's value for each key of the
\* patch (a nested object is replaced whole) and keeps every other key; no
\* other request changes an existing settings record; GET /v3/settings
\* answers with the record as it stands.
ShallowMerged(old, patch, new) ==
    /\ DOMAIN new = DOMAIN old \cup DOMAIN patch
    /\ \A k \in DOMAIN patch : new[k] = patch[k]
    /\ \A k \in DOMAIN old \ DOMAIN patch : new[k] = old[k]
C17_SettingsShallowMerge ==
    [][ /\ \A r \in Slots :
              (pc[r] = "idle" /\ pc'[r] = "settings_select" /\ settings.row # None)
                  => /\ settings'.row # None
                     /\ ShallowMerged(settings.row[1], req'[r].body[1], settings'.row[1])
        /\ (settings.row # None /\ settings' # settings)
              => \E r \in Slots : pc[r] = "idle" /\ pc'[r] = "settings_select"
        /\ (out'.method = "GET" /\ out'.path = <<"v3", "settings">> /\ out'.thrown = "")
              => /\ out'.resp.code = 200
                 /\ out'.resp.data = Some(IF settings.row = None THEN EmptyMap ELSE settings.row[1]) ]_vars

C17_Witness ==
    /\ out.method = "GET" /\ out.path = <<"v3", "settings">> /\ out.thrown = ""
    /\ DOMAIN out.resp.data[1] = {"autoRecall", "minScore"}
    /\ out.resp.data[1].autoRecall = "true" /\ out.resp.data[1].minScore = "0.5"

\* C19: no step of a migration changes a stored document, and none changes
\* a settings record that exists; a run that completes leaves a settings
\* record, so a second run changes nothing.
C19_MigrationIdempotent ==
    [][ (\/ out'.method = "migrate"
         \/ \E r \in Slots : pc'[r] # pc[r] /\ pc'[r] \in {"migrate_settings", "migrate_row"})
        => /\ docs' = docs
           /\ settings.row # None => settings' = settings
           /\ out'.resp.status = "Migrations complete." => settings'.row # None ]_vars

C19_Witness ==
    /\ out.method = "migrate" /\ out.resp.status = "Migrations complete."
    /\ settings.row = Some([autoRecall |-> "true"])
    /\ StoredIds # {}

\* What a list request asked for, read off its answer.
IsList(a) == a.method = "POST" /\ a.path = <<"list">> /\ a.thrown = ""
PageOf(a, d) ==
    \E page \in SelectPage(d, a.containerTag, OrDefault(a.limit, DefaultListLimit),
                            OrDefault(a.offset, DefaultOffset)) :
        a.resp.documents = [i \in 1..Len(page) |-> ListedDocument(d, page[i])]

C20_BatchPartialFailure ==
    [][ /\ \A r \in Slots :
              (/\ pc[r] = "batch_insert"
               /\ \/ pc'[r] = "batch_insert" /\ loc'[r].i = loc[r].i + 1
                  \/ pc'[r] = "idle" /\ out'.thrown = "")
              => /\ DOMAIN docs' = DOMAIN docs \cup {loc[r].id}
                 /\ docs'[loc[r].id].content = req[r].documents[1][loc[r].i].content[1]
                 /\ \A k \in DOMAIN docs \ {loc[r].id} : docs'[k] = docs[k]
        /\ \A r \in Slots :
              (pc[r] = "batch_insert" /\ pc'[r] = "idle" /\ out'.thrown = "storage")
              => /\ out'.resp.code = 500
                 /\ docs' = docs
                 /\ loc[r].id \notin DOMAIN docs'
                 /\ Len(loc[r].results) = loc[r].i - 1
                 /\ out'.made = {loc[r].results[j].id : j \in 1..Len(loc[r].results)}
                                   \cup {loc[r].id} ]_vars

C20_Witness ==
    /\ out.method = "POST" /\ out.path = <<"batch">> /\ out.thrown = "storage"
    /\ out.id = Uuid(2) /\ out.made = {Uuid(1), Uuid(2)}
    /\ Uuid(1) \in StoredIds /\ Uuid(2) \notin StoredIds

\* C21: a content update and a metadata update of the same stored document,
\* however their steps interleave, both take effect: the content UPDATE
\* leaves the row with the request's content, the embedding of that content
\* and the metadata it had; the metadata UPDATE leaves it with the metadata
\* it had shallow-merged with the patch, and the content and embedding it
\* had. Through PATCH /v3/documents/:id and PATCH /v4/memories alike.
C21_ConcurrentUpdatesKeepBoth ==
    [][ \A r \in Slots :
          (loc[r].id \in StoredIds /\ pc'[r] # pc[r] /\ out'.thrown # "storage")
          => LET old == docs[loc[r].id]
                 new == docs'[loc[r].id]
             IN  /\ pc[r] \in {"patch_content", "memory_content"}
                      => /\ new.content = req[r].content[1]
                         /\ new.embedding = Some(Vector(Slice(req[r].content[1])))
                         /\ new.metadata = old.metadata
                 /\ pc[r] \in {"patch_meta", "memory_meta"}
                      => /\ new.metadata = JsonbConcat(old.metadata, req[r].metadata[1])
                         /\ new.content = old.content
                         /\ new.embedding = old.embedding ]_vars

\* The same with the embedding left aside: the two updates write disjoint
\* columns, so neither overwrites what the other wrote.
C21_DisjointColumns ==
    [][ \A r \in Slots :
          (loc[r].id \in StoredIds /\ pc'[r] # pc[r] /\ out'.thrown # "storage")
          => LET old == docs[loc[r].id]
                 new == docs'[loc[r].id]
             IN  /\ pc[r] \in {"patch_content", "memory_content"}
                      => /\ new.content = req[r].content[1]
                         /\ new.embedding = loc[r].embedding
                         /\ new.metadata = old.metadata
                 /\ pc[r] \in {"patch_meta", "memory_meta"}
                      => /\ new.metadata = JsonbConcat(old.metadata, req[r].metadata[1])
                         /\ new.content = old.content
                         /\ new.embedding = old.embedding ]_vars

\* A content update has written "b" while the metadata update of another
\* request, which wrote [b |-> "2"], ran between its existence check and
\* its own metadata UPDATE.
C21_Witness ==
    \E r \in Slots :
        /\ pc[r] = "patch_meta" /\ loc[r].id = SeedId
        /\ SeedId \in StoredIds
        /\ docs[SeedId].content = "b"
        /\ docs[SeedId].embedding = Some(Vector("b"))
        /\ docs[SeedId].metadata = [a |-> "0", b |-> "2"]

\* C22: every client that query() borrows is released exactly once, whether
\* its statement returns or throws: the number of clients checked out of
\* the pool is the number of statements being executed, and when no request
\* is in flight no client is checked out.
C22_ConnectionsReleased ==
    /\ borrowed = Cardinality(Executing)
    /\ (\A r \in Slots : pc[r] = "idle") => borrowed = 0

\* A statement has thrown while another request's statement is executing.
C22_Witness ==
    /\ out.thrown = "storage" /\ out.resp.code = 500
    /\ \E r \in Slots : pc[r] = "select_query"
    /\ borrowed = 1

\* C23: when PATCH /v3/documents/:id answers {id, status: "updated"}, the
\* document of that id is stored: a DELETE of the id that runs between the
\* existence check and the writes does not end in "updated".
C23_UpdatedMeansStored ==
    (out.method = "PATCH" /\ Len(out.path) = 1 /\ out.resp.status = "updated")
        => out.id \in StoredIds

\* No step of an update stores a row under an id that had none.
C23_NeverRecreates ==
    [][ \A r \in Slots :
          (pc[r] \in {"patch_content", "patch_meta"} /\ pc'[r] # pc[r])
          => DOMAIN docs' = DOMAIN docs ]_vars

\* C24: DELETE /v4/memories with an ids array, empty or naming ids that are
\* not stored, is answered without an error unless the storage layer fails:
\* it removes exactly the stored documents named in ids and answers
\* {deleted: n}, n the number of documents removed.
C24_ForgetByIds ==
    [][ (/\ out'.method = "DELETE" /\ out'.path = <<"v4", "memories">>
         /\ out'.ids # None /\ out'.thrown # "storage")
        => LET hit == Range(out'.ids[1]) \cap StoredIds
           IN  /\ out'.resp.code = 200
               /\ out'.resp.deleted = Cardinality(hit)
               /\ docs' = DeleteIds(docs, hit) ]_vars

\* The same for the ids arrays that are not empty.
C24_ForgetByNamedIds ==
    [][ (/\ out'.method = "DELETE" /\ out'.path = <<"v4", "memories">>
         /\ out'.ids # None /\ Len(out'.ids[1]) > 0 /\ out'.thrown # "storage")
        => LET hit == Range(out'.ids[1]) \cap StoredIds
           IN  /\ out'.resp.code = 200
               /\ out'.resp.deleted = Cardinality(hit)
               /\ docs' = DeleteIds(docs, hit) ]_vars

\* An ids array naming a stored and an absent id removed the stored one.
C24_Witness ==
    /\ out.method = "DELETE" /\ out.path = <<"v4", "memories">>
    /\ out.ids = Some(<<SeedId, MissingId>>) /\ out.thrown = ""
    /\ out.resp.deleted = 1 /\ SeedId \notin StoredIds

====
